---- MODULE Spec2Model ----
(***************************************************************************)
(* Model of the FAQ ranking engine: query_faqs over the relational store   *)
(* (src/src/query_faqs.py) and over the vector index                       *)
(* (src/src/query_faqs_qdrant.py).                                         *)
(*                                                                         *)
(* Texts are TLA+ strings handled as character sequences (Len, SubSeq,     *)
(* \o).  Scores are exact rationals <<numerator, denominator>> with a      *)
(* positive denominator, kept in lowest terms: 0.5 is <<1, 2>>.  The       *)
(* Python code computes them in binary floating point; the model computes  *)
(* the same expressions without rounding.                                  *)
(***************************************************************************)
EXTENDS Integers, Sequences, FiniteSets, TLC

(***************************************************************************)
(* Exact rational arithmetic                                               *)
(***************************************************************************)
Abs(n) == IF n < 0 THEN -n ELSE n

RECURSIVE Gcd(_, _)
Gcd(a, b) == IF b = 0 THEN a ELSE Gcd(b, a % b)

Rat(n, d) ==
    LET g == Gcd(Abs(n), Abs(d))
        s == IF d < 0 THEN -1 ELSE 1
    IN  <<(s * n) \div g, (s * d) \div g>>

RAdd(x, y) == Rat(x[1] * y[2] + y[1] * x[2], x[2] * y[2])
RMul(x, y) == Rat(x[1] * y[1], x[2] * y[2])

\* x <= y, by comparing integer parts and then the reciprocals of the
\* fractional parts, so that no product of two denominators is formed.
RECURSIVE RLeq(_, _)
RLeq(x, y) ==
    LET fx == x[1] \div x[2]
        fy == y[1] \div y[2]
        rx == x[1] % x[2]
        ry == y[1] % y[2]
    IN  IF fx # fy THEN fx < fy
        ELSE IF rx = 0 THEN TRUE
        ELSE IF ry = 0 THEN FALSE
        ELSE RLeq(<<y[2], ry>>, <<x[2], rx>>)

RLess(x, y) == ~RLeq(y, x)
RMax(x, y) == IF RLeq(x, y) THEN y ELSE x

Zero == <<0, 1>>
One == <<1, 1>>

(***************************************************************************)
(* Python string primitives used by the ranking code                       *)
(***************************************************************************)
Char(s, i) == SubSeq(s, i, i)

UpperCase == <<"A", "B", "C", "D", "E", "F", "G", "H", "I", "J", "K", "L", "M",
               "N", "O", "P", "Q", "R", "S", "T", "U", "V", "W", "X", "Y", "Z">>
LowerCase == <<"a", "b", "c", "d", "e", "f", "g", "h", "i", "j", "k", "l", "m",
               "n", "o", "p", "q", "r", "s", "t", "u", "v", "w", "x", "y", "z">>

LowerChar(c) ==
    IF \E k \in 1..26 : UpperCase[k] = c
    THEN LowerCase[CHOOSE k \in 1..26 : UpperCase[k] = c]
    ELSE c

\* str.lower()
RECURSIVE lower(_)
lower(s) ==
    IF Len(s) = 0 THEN s
    ELSE LowerChar(Char(s, 1)) \o lower(SubSeq(s, 2, Len(s)))

Whitespace == {" "}

\* str.split(): the maximal runs of non-whitespace characters, in order.
RECURSIVE SplitFrom(_, _, _)
SplitFrom(s, i, cur) ==
    IF i > Len(s)
    THEN IF Len(cur) = 0 THEN <<>> ELSE <<cur>>
    ELSE IF Char(s, i) \in Whitespace
         THEN IF Len(cur) = 0
              THEN SplitFrom(s, i + 1, "")
              ELSE <<cur>> \o SplitFrom(s, i + 1, "")
         ELSE SplitFrom(s, i + 1, cur \o Char(s, i))

split(s) == SplitFrom(s, 1, "")

WordSet(s) == LET w == split(s) IN {w[i] : i \in 1..Len(w)}

\* Python's "x in y" on strings
Contains(hay, needle) ==
    \E i \in 1..(Len(hay) - Len(needle) + 1) :
        SubSeq(hay, i, i + Len(needle) - 1) = needle

(***************************************************************************)
(* difflib.SequenceMatcher(None, a, b).ratio()                             *)
(* No junk function is given and autojunk only acts on sequences of 200    *)
(* or more elements, so every character takes part in the matching.        *)
(***************************************************************************)
\* length of the common run that starts at a[i], b[j] inside the windows
RECURSIVE RunLen(_, _, _, _, _, _)
RunLen(a, b, i, j, ahi, bhi) ==
    IF i > ahi \/ j > bhi \/ Char(a, i) # Char(b, j) THEN 0
    ELSE 1 + RunLen(a, b, i + 1, j + 1, ahi, bhi)

\* find_longest_match: the longest block, earliest in a, then earliest in b.
\* Windows are 1-based and inclusive; <<i, j, k>> with k = 0 when none.
find_longest_match(a, b, alo, ahi, blo, bhi) ==
    LET runs == {<<p[1], p[2], RunLen(a, b, p[1], p[2], ahi, bhi)>> :
                    p \in (alo..ahi) \X (blo..bhi)}
        good == {r \in runs : r[3] > 0}
    IN  IF good = {} THEN <<alo, blo, 0>>
        ELSE CHOOSE r \in good : \A o \in good :
                 \/ o[3] < r[3]
                 \/ (o[3] = r[3] /\ r[1] < o[1])
                 \/ (o[3] = r[3] /\ r[1] = o[1] /\ r[2] <= o[2])

\* get_matching_blocks, summed: the number of matched characters.
RECURSIVE MatchedChars(_, _, _, _, _, _)
MatchedChars(a, b, alo, ahi, blo, bhi) ==
    IF alo > ahi \/ blo > bhi THEN 0
    ELSE LET m == find_longest_match(a, b, alo, ahi, blo, bhi)
         IN  IF m[3] = 0 THEN 0
             ELSE m[3]
                  + MatchedChars(a, b, alo, m[1] - 1, blo, m[2] - 1)
                  + MatchedChars(a, b, m[1] + m[3], ahi, m[2] + m[3], bhi)

\* ratio(): 2.0 * matches / (len(a) + len(b)), and 1.0 for two empty strings
SequenceMatcherRatio(a, b) ==
    IF Len(a) + Len(b) = 0 THEN One
    ELSE Rat(2 * MatchedChars(a, b, 1, Len(a), 1, Len(b)), Len(a) + Len(b))

(***************************************************************************)
(* Stored vectors: the textual form held by the relational store and its   *)
(* parsing (query_faqs.py lines 58-61 and 74-81).  float() is modelled on  *)
(* decimal integer literals with an optional sign; any other text raises   *)
(* ValueError, as float() does on non-numeric text.                        *)
(***************************************************************************)
Digits == <<"0", "1", "2", "3", "4", "5", "6", "7", "8", "9">>
IsDigit(c) == \E k \in 1..10 : Digits[k] = c
DigitValue(c) == (CHOOSE k \in 1..10 : Digits[k] = c) - 1

\* str.strip(chars): drop the leading and trailing characters that are in chars
RECURSIVE lstrip(_, _)
lstrip(s, chars) ==
    IF Len(s) > 0 /\ Char(s, 1) \in chars
    THEN lstrip(SubSeq(s, 2, Len(s)), chars)
    ELSE s

RECURSIVE rstrip(_, _)
rstrip(s, chars) ==
    IF Len(s) > 0 /\ Char(s, Len(s)) \in chars
    THEN rstrip(SubSeq(s, 1, Len(s) - 1), chars)
    ELSE s

strip(s, chars) == rstrip(lstrip(s, chars), chars)

\* str.split(','): the fields between commas, empty fields included
RECURSIVE SplitCommaFrom(_, _, _)
SplitCommaFrom(s, i, cur) ==
    IF i > Len(s) THEN <<cur>>
    ELSE IF Char(s, i) = ","
         THEN <<cur>> \o SplitCommaFrom(s, i + 1, "")
         ELSE SplitCommaFrom(s, i + 1, cur \o Char(s, i))

split_comma(s) == SplitCommaFrom(s, 1, "")

RECURSIVE DigitsValue(_, _)
DigitsValue(s, acc) ==
    IF Len(s) = 0 THEN acc
    ELSE DigitsValue(SubSeq(s, 2, Len(s)), 10 * acc + DigitValue(Char(s, 1)))

AllDigits(s) == Len(s) > 0 /\ \A i \in 1..Len(s) : IsDigit(Char(s, i))

\* float(x): [ok |-> FALSE] stands for the ValueError
float(x) ==
    LET neg == Len(x) > 0 /\ Char(x, 1) = "-"
        pos == Len(x) > 0 /\ Char(x, 1) = "+"
        body == IF neg \/ pos THEN SubSeq(x, 2, Len(x)) ELSE x
    IN  IF AllDigits(body)
        THEN [ok |-> TRUE,
              value |-> IF neg THEN -DigitsValue(body, 0) ELSE DigitsValue(body, 0)]
        ELSE [ok |-> FALSE, value |-> 0]

\* [float(x.strip()) for x in embedding_str.split(',') if x.strip()]
RECURSIVE FloatList(_, _)
FloatList(fields, i) ==
    IF i > Len(fields) THEN [ok |-> TRUE, value |-> <<>>]
    ELSE LET x == strip(fields[i], Whitespace)
             rest == FloatList(fields, i + 1)
         IN  IF Len(x) = 0 THEN rest
             ELSE LET f == float(x)
                  IN  IF f.ok /\ rest.ok
                      THEN [ok |-> TRUE, value |-> <<f.value>> \o rest.value]
                      ELSE [ok |-> FALSE, value |-> <<>>]

Brackets == {"[", "]", "{", "}"}

\* the parse of one stored embedding text; empty is TRUE when the stripped
\* text is empty (the keyword loop then appends nothing, the FAQ loop takes [])
ParseEmbedding(text) ==
    LET embedding_str == strip(text, Brackets)
    IN  IF Len(embedding_str) = 0
        THEN [ok |-> TRUE, empty |-> TRUE, value |-> <<>>]
        ELSE LET fl == FloatList(split_comma(embedding_str), 1)
             IN  [ok |-> fl.ok, empty |-> FALSE, value |-> fl.value]

(***************************************************************************)
(* cosine_similarity (query_faqs.py lines 14-21)                           *)
(***************************************************************************)
RECURSIVE DotFrom(_, _, _)
DotFrom(v, w, i) ==
    IF i > Len(v) THEN 0 ELSE v[i] * w[i] + DotFrom(v, w, i + 1)

dot(v, w) == DotFrom(v, w, 1)

\* the exact square root; the vectors of the model all have integer norms
Sqrt(n) == CHOOSE r \in 0..n : r * r = n

norm(v) == Sqrt(dot(v, v))

cosine_similarity(vec1, vec2) ==
    LET dot_product == dot(vec1, vec2)
        norm1 == norm(vec1)
        norm2 == norm(vec2)
    IN  IF norm1 = 0 \/ norm2 = 0 THEN Zero
        ELSE Rat(dot_product, norm1 * norm2)

(***************************************************************************)
(* Bounded inputs                                                          *)
(***************************************************************************)
MaxFaqRows == 2
MaxKeywordRows == 1
MaxPoints == 2
MaxTopK == 2
MaxKeywordPoints == 5

\* the FAQs of the relational tables and of the index collection
DbFaqIds == {"f1", "f2"}
IndexFaqIds == {"f1", "f2", "f3"}

Question(faq_id) ==
    CASE faq_id = "f1" -> "How do I sign up for an account?"
      [] faq_id = "f2" -> "How do I reset my password?"
      [] OTHER -> "Close my bank account"

\* Ingestion into the index adds points under fresh ids and deletes none
\* (store_enhanced_embeddings_to_qdrant.py lines 92-136), so the points of an
\* FAQ whose question was reworded stay next to the new ones.
PointQuestions(faq_id) ==
    IF faq_id = "f2" THEN {Question(faq_id), "Forgot your passcode?"}
    ELSE {Question(faq_id)}

QuestionTexts == UNION {PointQuestions(f) : f \in DbFaqIds \cup IndexFaqIds}

Queries ==
    {"how do I create an account", "how to reset password",
     "reset password vacation", "zzz"}

\* what the embedding provider may return for a query
QueryVectors == {<<1, 0>>}

\* the texts the embedding column of a row may hold
FaqEmbeddingTexts == {"[1,0]", "{3, 4}", "[1,0,0]", "[]", "[1,NULL]"}
KeywordEmbeddingTexts == {"{4,3}", "[-1,0]", "[1,0,0]", "[x]"}

PointVectors == {<<1, 0>>, <<3, 4>>, <<0, 1>>}

Thresholds == {<<2, 5>>, <<53, 100>>}

SeqsUpTo(S, n) == UNION {[1..k -> S] : k \in 0..n}

DistinctIds(rows) ==
    \A i, j \in 1..Len(rows) : rows[i].faq_id = rows[j].faq_id => i = j

FaqRows ==
    {[faq_id |-> f, question |-> Question(f), embedding |-> e] :
        f \in DbFaqIds, e \in FaqEmbeddingTexts}

KeywordRows ==
    {[faq_id |-> f, keyword |-> "kw", embedding |-> e] :
        f \in DbFaqIds, e \in KeywordEmbeddingTexts}

Points ==
    UNION {{[vector |-> v, payload |-> [faq_id |-> f, question |-> t]] :
               t \in PointQuestions(f), v \in PointVectors} : f \in IndexFaqIds}

\* An FAQ is stored as one point for its question and one point for each of
\* its keywords (store_enhanced_embeddings_to_qdrant.py lines 92-127): the
\* collections in which one FAQ has many points close to the query.
KeywordHeavyPoints ==
    {[vector |-> <<1, 0>>,
      payload |-> [faq_id |-> "f1", question |-> Question("f1")]],
     [vector |-> <<3, 4>>,
      payload |-> [faq_id |-> "f2", question |-> Question("f2")]]}

Collections ==
    SeqsUpTo(Points, MaxPoints)
        \cup SeqsUpTo(KeywordHeavyPoints, MaxKeywordPoints)

(***************************************************************************)
(* Lexical features and the boost rules.  The relational variant is        *)
(* query_faqs.py lines 99-155, the vector-index variant                    *)
(* query_faqs_qdrant.py lines 56-111; each is translated from its own      *)
(* copy of the rules.                                                      *)
(***************************************************************************)
stop_words ==
    {"the", "a", "an", "and", "or", "but", "in", "on", "at", "to", "for", "of",
     "with", "by", "is", "are", "was", "were", "be", "been", "have", "has",
     "had", "do", "does", "did", "will", "would", "could", "should", "may",
     "might", "must", "can", "hi", "hello", "hey", "how", "what", "who",
     "where", "when", "why"}

related_term_pairs ==
    << <<{"create", "make", "setup", "start", "new"},
         {"sign", "up", "register", "account"}>>,
       <<{"delete", "remove", "cancel"},
         {"delete", "remove", "cancel", "close"}>>,
       <<{"password", "login", "signin", "access"},
         {"password", "login", "sign", "access"}>>,
       <<{"bank", "account", "money", "transfer"},
         {"bank", "account", "money", "transfer"}>> >>

out_of_domain_terms ==
    {"dresscode", "dress", "code", "hotdog", "pasta", "cooking", "sunday",
     "leaves", "leave", "vacation", "holiday"}

\* the boost weights, as the literals of the source
W_orthographic == <<1, 5>>       \* 0.2
W_match_ratio == <<3, 20>>       \* 0.15
W_phrase == <<3, 10>>            \* 0.3
W_word == <<1, 20>>              \* 0.05
W_create_signup == <<1, 5>>      \* 0.2
W_related == <<3, 20>>           \* 0.15
OrthographicFloor == <<3, 10>>   \* 0.3
OutOfDomainFactor == <<7, 10>>   \* 0.7

\* [word for word in text.split() if word not in stop_words and len(word) > 2]
meaningful_words(text_lower) ==
    {w \in WordSet(text_lower) : w \notin stop_words /\ Len(w) > 2}

orthographic_similarity(query, question) ==
    SequenceMatcherRatio(lower(query), lower(question))

\* rule 1: if orthographic_similarity > 0.3: boost += orthographic_similarity * 0.2
orthographic_boost(ortho) ==
    IF RLess(OrthographicFloor, ortho) THEN RMul(ortho, W_orthographic) ELSE Zero

\* rule 2: if common_words: boost += len(common_words) / len(query_set) * 0.15
match_ratio_boost(query_set, faq_set) ==
    LET common_words == query_set \cap faq_set
    IN  IF common_words # {}
        THEN RMul(IF query_set # {}
                  THEN Rat(Cardinality(common_words), Cardinality(query_set))
                  ELSE Zero,
                  W_match_ratio)
        ELSE Zero

\* rule 3: if user_query_lower in faq_question_lower: boost += 0.3
phrase_boost(user_query_lower, faq_question_lower) ==
    IF Contains(faq_question_lower, user_query_lower) THEN W_phrase ELSE Zero

\* rule 4: boost += 0.05 for each word of query_set that is in faq_set
word_boost(query_set, faq_set) ==
    Rat(Cardinality({w \in query_set : w \in faq_set}) * W_word[1], W_word[2])

\* rule 6: boost += 0.15 for every pair whose trigger set meets the raw query
\* words and whose target set meets the raw FAQ words
related_terms_boost(query_words_lower, faq_words_lower) ==
    LET fired == {k \in 1..Len(related_term_pairs) :
                     /\ related_term_pairs[k][1] \cap query_words_lower # {}
                     /\ related_term_pairs[k][2] \cap faq_words_lower # {}}
    IN  Rat(Cardinality(fired) * W_related[1], W_related[2])

\* rule 5, relational variant (query_faqs.py lines 148-150): tested on the raw
\* whitespace-split word sets
create_signup_boost_db(user_query_lower, faq_question_lower) ==
    LET query_words_lower == WordSet(user_query_lower)
        faq_words_lower == WordSet(faq_question_lower)
    IN  IF /\ "create" \in query_words_lower
           /\ "sign" \in faq_words_lower
           /\ "up" \in faq_words_lower
        THEN W_create_signup ELSE Zero

\* rule 5, vector-index variant (query_faqs_qdrant.py lines 93-95): tested on
\* query_set and faq_set, the stop-word and length filtered sets
create_signup_boost_qdrant(user_query_lower, faq_question_lower) ==
    LET query_set == meaningful_words(user_query_lower)
        faq_set == meaningful_words(faq_question_lower)
    IN  IF /\ "create" \in query_set
           /\ "sign" \in faq_set
           /\ "up" \in faq_set
        THEN W_create_signup ELSE Zero

\* the boost of one candidate in the relational variant
boost_db(query, question) ==
    LET user_query_lower == lower(query)
        faq_question_lower == lower(question)
        query_set == meaningful_words(user_query_lower)
        faq_set == meaningful_words(faq_question_lower)
    IN  RAdd(RAdd(RAdd(RAdd(RAdd(
            orthographic_boost(orthographic_similarity(query, question)),
            match_ratio_boost(query_set, faq_set)),
            phrase_boost(user_query_lower, faq_question_lower)),
            word_boost(query_set, faq_set)),
            create_signup_boost_db(user_query_lower, faq_question_lower)),
            related_terms_boost(WordSet(user_query_lower),
                                WordSet(faq_question_lower)))

\* the boost of one hit in the vector-index variant
boost_qdrant(query, question) ==
    LET user_query_lower == lower(query)
        faq_question_lower == lower(question)
        query_set == meaningful_words(user_query_lower)
        faq_set == meaningful_words(faq_question_lower)
    IN  RAdd(RAdd(RAdd(RAdd(RAdd(
            orthographic_boost(orthographic_similarity(query, question)),
            match_ratio_boost(query_set, faq_set)),
            phrase_boost(user_query_lower, faq_question_lower)),
            word_boost(query_set, faq_set)),
            create_signup_boost_qdrant(user_query_lower, faq_question_lower)),
            related_terms_boost(WordSet(user_query_lower),
                                WordSet(faq_question_lower)))

\* the out-of-domain test on the raw query words (query_faqs.py lines 160-170,
\* query_faqs_qdrant.py lines 113-119)
out_of_domain_matches(query) ==
    WordSet(lower(query)) \cap out_of_domain_terms

\* lines 117-119 (query_faqs_qdrant.py lines 76-78): common_words
common_words(query, question) ==
    meaningful_words(lower(query)) \cap meaningful_words(lower(question))

\* The texts of a run come from Queries and QuestionTexts; the tables hold,
\* for each pair, the value of the operator, computed once.
OrthographicTable ==
    {<<q, f, orthographic_similarity(q, f)>> : q \in Queries, f \in QuestionTexts}
BoostDbTable == {<<q, f, boost_db(q, f)>> : q \in Queries, f \in QuestionTexts}
BoostQdrantTable ==
    {<<q, f, boost_qdrant(q, f)>> : q \in Queries, f \in QuestionTexts}
CommonWordsTable ==
    {<<q, f, common_words(q, f)>> : q \in Queries, f \in QuestionTexts}
OutOfDomainTable == {<<q, q, out_of_domain_matches(q)>> : q \in Queries}

Lookup(table, q, f) == (CHOOSE t \in table : t[1] = q /\ t[2] = f)[3]

(***************************************************************************)
(* Ranking, relational variant (query_faqs.py lines 47-191)                *)
(***************************************************************************)
\* np.dot raises ValueError on two vectors of different length
ShapeError(vec1, vec2) == Len(vec1) # Len(vec2)

\* the dimension check of line 83 left out
dimension_unchecked(stored_embedding, query_embedding) == FALSE

\* query_faqs.py line 83: the dimension check on a parsed FAQ embedding
dimension_mismatch(stored_embedding, query_embedding) ==
    Len(stored_embedding) # Len(query_embedding)

\* query_faqs.py line 94: the dimension check on a keyword embedding
keyword_dimension_ok(keyword_embedding, query_embedding) ==
    Len(keyword_embedding) = Len(query_embedding)

\* lines 52-65: the keyword embeddings of one FAQ, in row order; ok is FALSE
\* when the parse of any keyword row raises
RECURSIVE KeywordEmbeddings(_, _, _)
KeywordEmbeddings(keyword_results, i, faq_id) ==
    IF i > Len(keyword_results) THEN <<>>
    ELSE LET p == ParseEmbedding(keyword_results[i].embedding)
             rest == KeywordEmbeddings(keyword_results, i + 1, faq_id)
         IN  IF keyword_results[i].faq_id = faq_id /\ p.ok /\ ~p.empty
             THEN <<p.value>> \o rest
             ELSE rest

keyword_map_raises(keyword_results) ==
    \E i \in 1..Len(keyword_results) :
        ~ParseEmbedding(keyword_results[i].embedding).ok

\* lines 91-96: keyword_similarity starts at 0.0 and takes the max over the
\* keyword embeddings that pass the dimension check
RECURSIVE KeywordSimilarity(_, _, _)
KeywordSimilarity(kws, i, query_embedding) ==
    IF i = 0 THEN Zero
    ELSE LET before == KeywordSimilarity(kws, i - 1, query_embedding)
         IN  IF keyword_dimension_ok(kws[i], query_embedding)
             THEN RMax(before, cosine_similarity(query_embedding, kws[i]))
             ELSE before

KeywordCalls(kws, query_embedding) ==
    {<<Len(query_embedding), Len(kws[i])>> :
        i \in {k \in 1..Len(kws) : keyword_dimension_ok(kws[k], query_embedding)}}

\* the out-of-domain penalty of lines 170-172 left out
unadjusted_keyword_similarity(user_query, keyword_similarity) ==
    keyword_similarity

\* lines 160-172
adjusted_keyword_similarity(user_query, keyword_similarity) ==
    IF Lookup(OutOfDomainTable, user_query, user_query) # {}
    THEN RMul(keyword_similarity, OutOfDomainFactor)
    ELSE keyword_similarity

\* line 174
final_similarity_db(base_similarity, adjusted_kw, orthographic) ==
    RAdd(RAdd(RMul(base_similarity, <<1, 2>>), RMul(adjusted_kw, <<3, 10>>)),
         RMul(orthographic, <<1, 5>>))

\* lines 87-182 with the boost folded into the final score, as the
\* vector-index variant does
ScoredWithBoost(row, stored_embedding, kws, user_query, query_embedding) ==
    LET base_similarity == cosine_similarity(query_embedding, stored_embedding)
        keyword_similarity == KeywordSimilarity(kws, Len(kws), query_embedding)
        ortho == Lookup(OrthographicTable, user_query, row.question)
        boost == Lookup(BoostDbTable, user_query, row.question)
    IN  [score |-> RAdd(final_similarity_db(
                            base_similarity,
                            adjusted_keyword_similarity(user_query,
                                                        keyword_similarity),
                            ortho),
                        boost),
         base_similarity |-> base_similarity,
         keyword_similarity |-> keyword_similarity,
         orthographic_similarity |-> ortho,
         boost |-> boost,
         faq_data |-> row]

\* lines 87-182 for one row whose embedding parsed and passed the check
ScoredCandidate(row, stored_embedding, kws, user_query, query_embedding) ==
    LET base_similarity == cosine_similarity(query_embedding, stored_embedding)
        keyword_similarity == KeywordSimilarity(kws, Len(kws), query_embedding)
        ortho == Lookup(OrthographicTable, user_query, row.question)
    IN  [score |-> final_similarity_db(
                       base_similarity,
                       adjusted_keyword_similarity(user_query, keyword_similarity),
                       ortho),
         base_similarity |-> base_similarity,
         keyword_similarity |-> keyword_similarity,
         orthographic_similarity |-> ortho,
         boost |-> Lookup(BoostDbTable, user_query, row.question),
         faq_data |-> row]

\* lines 71-182: the loop over faq_results.  ok is FALSE when an exception
\* left the loop (a float() ValueError, or np.dot on unequal lengths); calls
\* are the argument lengths of the cosine_similarity calls made until then.
RECURSIVE ScoreRows(_, _, _, _, _)
ScoreRows(faq_results, i, keyword_results, user_query, query_embedding) ==
    IF i > Len(faq_results) THEN [ok |-> TRUE, sims |-> <<>>, calls |-> {}]
    ELSE
    LET row == faq_results[i]
        p == ParseEmbedding(row.embedding)
        rest == ScoreRows(faq_results, i + 1, keyword_results, user_query,
                          query_embedding)
        kws == KeywordEmbeddings(keyword_results, 1, row.faq_id)
    IN  IF ~p.ok THEN [ok |-> FALSE, sims |-> <<>>, calls |-> {}]
        ELSE IF dimension_mismatch(p.value, query_embedding) THEN rest
        ELSE IF ShapeError(query_embedding, p.value)
        THEN [ok |-> FALSE, sims |-> <<>>,
              calls |-> {<<Len(query_embedding), Len(p.value)>>}]
        ELSE [ok |-> rest.ok,
              sims |-> <<ScoredCandidate(row, p.value, kws, user_query,
                                         query_embedding)>> \o rest.sims,
              calls |-> {<<Len(query_embedding), Len(p.value)>>}
                        \cup KeywordCalls(kws, query_embedding)
                        \cup rest.calls]

\* a descending sort that puts an element before the elements equal to it
RECURSIVE InsertBeforeEqual(_, _)
InsertBeforeEqual(sorted, e) ==
    IF Len(sorted) = 0 THEN <<e>>
    ELSE IF RLeq(Head(sorted).score, e.score)
         THEN <<e>> \o sorted
         ELSE <<Head(sorted)>> \o InsertBeforeEqual(Tail(sorted), e)

\* list.sort(key=lambda x: x[0], reverse=True): stable, descending by score
RECURSIVE InsertDescending(_, _)
InsertDescending(sorted, e) ==
    IF Len(sorted) = 0 THEN <<e>>
    ELSE IF RLess(Head(sorted).score, e.score)
         THEN <<e>> \o sorted
         ELSE <<Head(sorted)>> \o InsertDescending(Tail(sorted), e)

RECURSIVE SortDescending(_, _)
SortDescending(items, n) ==
    IF n = 0 THEN <<>>
    ELSE InsertDescending(SortDescending(items, n - 1), items[n])

\* the sort of line 185 left out
sort_omitted(items) == items

sort_descending(items) == SortDescending(items, Len(items))

\* line 188
meets_threshold(score, min_similarity_threshold) ==
    RLeq(min_similarity_threshold, score)

RECURSIVE FilterThreshold(_, _)
FilterThreshold(sims, min_similarity_threshold) ==
    IF Len(sims) = 0 THEN <<>>
    ELSE LET rest == FilterThreshold(Tail(sims), min_similarity_threshold)
         IN  IF meets_threshold(Head(sims).score, min_similarity_threshold)
             THEN <<[score |-> Head(sims).score,
                     faq_data |-> Head(sims).faq_data]>> \o rest
             ELSE rest

\* the slice of line 191 left out
truncate_omitted(items, top_k) == items

\* seq[:top_k] for top_k >= 0
truncate(items, top_k) ==
    SubSeq(items, 1, IF top_k < Len(items) THEN top_k ELSE Len(items))

(***************************************************************************)
(* Ranking, vector-index variant (query_faqs_qdrant.py lines 28-139)       *)
(***************************************************************************)
\* the search of the index: every point scored by cosine against the query,
\* the hits below score_threshold dropped, the rest in descending score
\* order, cut to limit
RECURSIVE ScoredPoints(_, _, _)
ScoredPoints(collection, i, query) ==
    IF i > Len(collection) THEN <<>>
    ELSE <<[score |-> cosine_similarity(query, collection[i].vector),
            payload |-> collection[i].payload]>>
         \o ScoredPoints(collection, i + 1, query)

\* the search without score_threshold (line 32 left out)
AnyScore(hits, score_threshold) == hits

RECURSIVE AboveThreshold(_, _)
AboveThreshold(hits, score_threshold) ==
    IF Len(hits) = 0 THEN <<>>
    ELSE LET rest == AboveThreshold(Tail(hits), score_threshold)
         IN  IF RLeq(score_threshold, Head(hits).score)
             THEN <<Head(hits)>> \o rest
             ELSE rest

\* lines 28-33: limit = top_k * 2, score_threshold = min_similarity_threshold
query_points(collection, query, top_k, min_similarity_threshold) ==
    truncate(sort_descending(
                 AboveThreshold(ScoredPoints(collection, 1, query),
                                min_similarity_threshold)),
             top_k * 2)

\* lines 117-120 without line 123: the boost is not added
final_similarity_unboosted(user_query, similarity_score, boost) ==
    IF Lookup(OutOfDomainTable, user_query, user_query) # {}
    THEN RMul(similarity_score, OutOfDomainFactor)
    ELSE similarity_score

\* lines 117-123
final_similarity_qdrant(user_query, similarity_score, boost) ==
    RAdd(IF Lookup(OutOfDomainTable, user_query, user_query) # {}
         THEN RMul(similarity_score, OutOfDomainFactor)
         ELSE similarity_score,
         boost)

\* lines 45-133: the loop over the hits, seen_faq_ids threaded through
RECURSIVE ProcessHits(_, _, _, _, _)
ProcessHits(hits, i, seen_faq_ids, user_query, min_similarity_threshold) ==
    IF i > Len(hits) THEN <<>>
    ELSE
    LET hit == hits[i]
        faq_id == hit.payload.faq_id
        boost == Lookup(BoostQdrantTable, user_query, hit.payload.question)
        final == final_similarity_qdrant(user_query, hit.score, boost)
    IN  IF faq_id \in seen_faq_ids
        THEN ProcessHits(hits, i + 1, seen_faq_ids, user_query,
                         min_similarity_threshold)
        ELSE IF meets_threshold(final, min_similarity_threshold)
        THEN <<[score |-> final,
                base_similarity |-> hit.score,
                orthographic_similarity |->
                    Lookup(OrthographicTable, user_query,
                           hit.payload.question),
                boost |-> boost,
                faq_data |-> hit.payload]>>
             \o ProcessHits(hits, i + 1, seen_faq_ids \cup {faq_id}, user_query,
                            min_similarity_threshold)
        ELSE ProcessHits(hits, i + 1, seen_faq_ids, user_query,
                         min_similarity_threshold)

(***************************************************************************)
(* State                                                                   *)
(***************************************************************************)
VARIABLES
    faq_embeddings,            \* table faq_embeddings, in SELECT order
    faq_keywords,              \* table faq_keywords, in SELECT order
    collection,                \* the points of the index collection "faqs"
    variant,                   \* which query_faqs is running: "db", "qdrant"
    pc,                        \* where the current query_faqs call stands
    user_query, top_k, min_similarity_threshold,   \* its arguments
    query_embedding,
    faq_results, keyword_results,                  \* relational variant
    search_result,                                 \* vector-index variant
    similarities,              \* the scored candidates, sorted
    result,                    \* the list returned to the caller
    cosine_calls,              \* argument lengths of the cosine_similarity calls
    retrievals,                \* retrieval calls issued to the store so far
    failure,                   \* the external call of this query that raised:
                               \* "none", "embedding" or "retrieval"
    keywords_at_faq_query,     \* table faq_keywords as it stood when line 44 ran
    ingest_pc,                 \* where save_enhanced_embeddings_to_db stands
    lex_query, lex_question, lex_separator,  \* texts handed to the boost rules
    lex_boosts                 \* what the boost rules returned for them

store == <<faq_embeddings, faq_keywords, collection>>
args == <<user_query, top_k, min_similarity_threshold>>
locals == <<query_embedding, faq_results, keyword_results, search_result,
            similarities, cosine_calls>>
ingestion == <<ingest_pc>>
lexical == <<lex_query, lex_question, lex_separator, lex_boosts>>
others == <<ingestion, lexical>>
vars == <<store, variant, pc, args, locals, result, retrievals, failure,
          keywords_at_faq_query, others>>

NoCall ==
    /\ user_query = ""
    /\ top_k = 0
    /\ min_similarity_threshold = Zero
    /\ query_embedding = <<>>
    /\ faq_results = <<>>
    /\ keyword_results = <<>>
    /\ search_result = <<>>
    /\ similarities = <<>>
    /\ result = <<>>
    /\ cosine_calls = {}
    /\ retrievals = 0
    /\ failure = "none"
    /\ keywords_at_faq_query = <<>>

\* no ingestion runs and no text is handed to the boost rules on their own
NoOthers ==
    /\ ingest_pc = "off"
    /\ lex_query = "" /\ lex_question = "" /\ lex_separator = ""
    /\ lex_boosts = <<>>

Init ==
    /\ \/ /\ faq_embeddings \in {t \in SeqsUpTo(FaqRows, MaxFaqRows) : DistinctIds(t)}
          /\ faq_keywords \in SeqsUpTo(KeywordRows, MaxKeywordRows)
          /\ collection = <<>>
       \/ /\ faq_embeddings = <<>>
          /\ faq_keywords = <<>>
          /\ collection \in Collections
    /\ variant = "none"
    /\ pc = "idle"
    /\ NoCall
    /\ NoOthers

(***************************************************************************)
(* query_faqs, relational variant                                          *)
(***************************************************************************)
\* lines 23-28: the call and its first statement, the embedding of the query
Db_GenerateEmbeddings(q, k, t, e) ==
    /\ pc = "idle"
    /\ variant' = "db"
    /\ user_query' = q /\ top_k' = k /\ min_similarity_threshold' = t
    /\ query_embedding' = e
    /\ pc' = "db_faq_query"
    /\ UNCHANGED <<store, others, keywords_at_faq_query>>
    /\ UNCHANGED <<faq_results, keyword_results, search_result,
                   similarities, cosine_calls, result, retrievals, failure>>

\* generate_embeddings moved inside the try of line 43: its exception would
\* be caught and [] returned
Db_GenerateEmbeddingsCaught(q, k, t) ==
    /\ pc = "idle"
    /\ variant' = "db"
    /\ user_query' = q /\ top_k' = k /\ min_similarity_threshold' = t
    /\ failure' = "embedding"
    /\ result' = <<>>
    /\ pc' = "returned"
    /\ UNCHANGED <<store, others, keywords_at_faq_query>>
    /\ UNCHANGED <<locals, retrievals>>

\* generate_embeddings raises: nothing in query_faqs catches it
Db_GenerateEmbeddingsRaises(q, k, t) ==
    /\ pc = "idle"
    /\ variant' = "db"
    /\ user_query' = q /\ top_k' = k /\ min_similarity_threshold' = t
    /\ failure' = "embedding"
    /\ pc' = "raised"
    /\ UNCHANGED <<store, others, keywords_at_faq_query>>
    /\ UNCHANGED <<locals, result, retrievals>>

\* line 44
Db_FetchFaqs ==
    /\ pc = "db_faq_query"
    /\ faq_results' = faq_embeddings
    /\ keywords_at_faq_query' = faq_keywords
    /\ retrievals' = retrievals + 1
    /\ pc' = "db_keyword_query"
    /\ UNCHANGED <<store, others>>
    /\ UNCHANGED <<variant, args, query_embedding, keyword_results,
                   search_result, similarities, cosine_calls, result, failure>>

\* line 44 raises: lines 193-197 return []
Db_FetchFaqsRaises ==
    /\ pc = "db_faq_query"
    /\ retrievals' = retrievals + 1
    /\ failure' = "retrieval"
    /\ result' = <<>>
    /\ pc' = "returned"
    /\ UNCHANGED <<store, others, keywords_at_faq_query>>
    /\ UNCHANGED <<variant, args, locals>>

\* line 45
Db_FetchKeywords ==
    /\ pc = "db_keyword_query"
    /\ keyword_results' = faq_keywords
    /\ retrievals' = retrievals + 1
    /\ pc' = "db_rank"
    /\ UNCHANGED <<store, others, keywords_at_faq_query>>
    /\ UNCHANGED <<variant, args, query_embedding, faq_results,
                   search_result, similarities, cosine_calls, result, failure>>

\* line 45 raises: lines 193-197 return []
Db_FetchKeywordsRaises ==
    /\ pc = "db_keyword_query"
    /\ retrievals' = retrievals + 1
    /\ failure' = "retrieval"
    /\ result' = <<>>
    /\ pc' = "returned"
    /\ UNCHANGED <<store, others, keywords_at_faq_query>>
    /\ UNCHANGED <<variant, args, locals>>

\* lines 47-197
Db_Rank ==
    /\ pc = "db_rank"
    /\ IF Len(faq_results) = 0
       THEN /\ result' = <<>>
            /\ UNCHANGED <<similarities, cosine_calls>>
       ELSE IF keyword_map_raises(keyword_results)
       THEN /\ result' = <<>>
            /\ UNCHANGED <<similarities, cosine_calls>>
       ELSE LET scored == ScoreRows(faq_results, 1, keyword_results,
                                    user_query, query_embedding)
                sorted == sort_descending(scored.sims)
            IN  /\ cosine_calls' = scored.calls
                /\ IF scored.ok
                   THEN /\ similarities' = sorted
                        /\ result' = truncate(
                               FilterThreshold(sorted, min_similarity_threshold),
                               top_k)
                   ELSE /\ similarities' = <<>>
                        /\ result' = <<>>
    /\ pc' = "returned"
    /\ UNCHANGED <<store, others, keywords_at_faq_query>>
    /\ UNCHANGED <<variant, args, query_embedding, faq_results,
                   keyword_results, search_result, retrievals, failure>>

(***************************************************************************)
(* query_faqs, vector-index variant                                        *)
(***************************************************************************)
\* lines 17-22
Qdrant_GenerateEmbeddings(q, k, t, e) ==
    /\ pc = "idle"
    /\ variant' = "qdrant"
    /\ user_query' = q /\ top_k' = k /\ min_similarity_threshold' = t
    /\ query_embedding' = e
    /\ pc' = "qdrant_search"
    /\ UNCHANGED <<store, others, keywords_at_faq_query>>
    /\ UNCHANGED <<faq_results, keyword_results, search_result,
                   similarities, cosine_calls, result, retrievals, failure>>

Qdrant_GenerateEmbeddingsRaises(q, k, t) ==
    /\ pc = "idle"
    /\ variant' = "qdrant"
    /\ user_query' = q /\ top_k' = k /\ min_similarity_threshold' = t
    /\ failure' = "embedding"
    /\ pc' = "raised"
    /\ UNCHANGED <<store, others, keywords_at_faq_query>>
    /\ UNCHANGED <<locals, result, retrievals>>

\* lines 28-33
Qdrant_QueryPoints ==
    /\ pc = "qdrant_search"
    /\ search_result' = query_points(collection, query_embedding, top_k,
                                     min_similarity_threshold)
    /\ retrievals' = retrievals + 1
    /\ pc' = "qdrant_process"
    /\ UNCHANGED <<store, others, keywords_at_faq_query>>
    /\ UNCHANGED <<variant, args, query_embedding, faq_results,
                   keyword_results, similarities, cosine_calls, result, failure>>

\* lines 28-33 raise: the call is outside any try, the exception leaves
\* query_faqs
Qdrant_QueryPointsRaises ==
    /\ pc = "qdrant_search"
    /\ retrievals' = retrievals + 1
    /\ failure' = "retrieval"
    /\ pc' = "raised"
    /\ UNCHANGED <<store, others, keywords_at_faq_query>>
    /\ UNCHANGED <<variant, args, locals, result>>

\* lines 35-139 with the first hit read before the loop (points[0]), which
\* raises IndexError on an empty response
Qdrant_ProcessFirstHit ==
    /\ pc = "qdrant_process"
    /\ IF Len(search_result) = 0
       THEN /\ pc' = "raised"
            /\ UNCHANGED <<similarities, result>>
       ELSE /\ similarities' =
                   sort_descending(ProcessHits(search_result, 1, {}, user_query,
                                               min_similarity_threshold))
            /\ result' = truncate(similarities', top_k)
            /\ pc' = "returned"
    /\ UNCHANGED <<store, others, keywords_at_faq_query>>
    /\ UNCHANGED <<variant, args, query_embedding, faq_results,
                   keyword_results, search_result, cosine_calls, retrievals,
                   failure>>

\* lines 35-139
Qdrant_Process ==
    /\ pc = "qdrant_process"
    /\ LET processed_results ==
               sort_descending(ProcessHits(search_result, 1, {}, user_query,
                                           min_similarity_threshold))
       IN  /\ similarities' = processed_results
           /\ result' = truncate(processed_results, top_k)
    /\ pc' = "returned"
    /\ UNCHANGED <<store, others, keywords_at_faq_query>>
    /\ UNCHANGED <<variant, args, query_embedding, faq_results,
                   keyword_results, search_result, cosine_calls, retrievals,
                   failure>>

\* the caller's loop takes the next question (main, both variants)
NextQuestion ==
    /\ pc \in {"returned", "raised"}
    /\ pc' = "idle"
    /\ variant' = "none"
    /\ user_query' = ""
    /\ top_k' = 0
    /\ min_similarity_threshold' = Zero
    /\ query_embedding' = <<>>
    /\ faq_results' = <<>>
    /\ keyword_results' = <<>>
    /\ search_result' = <<>>
    /\ similarities' = <<>>
    /\ result' = <<>>
    /\ cosine_calls' = {}
    /\ retrievals' = 0
    /\ failure' = "none"
    /\ keywords_at_faq_query' = <<>>
    /\ UNCHANGED <<store, others>>

Next ==
    \/ \E q \in Queries, k \in 0..MaxTopK, t \in Thresholds, e \in QueryVectors :
           Db_GenerateEmbeddings(q, k, t, e)
    \/ \E q \in Queries, k \in 0..MaxTopK, t \in Thresholds :
           Db_GenerateEmbeddingsRaises(q, k, t)
    \/ Db_FetchFaqs
    \/ Db_FetchFaqsRaises
    \/ Db_FetchKeywords
    \/ Db_FetchKeywordsRaises
    \/ Db_Rank
    \/ \E q \in Queries, k \in 0..MaxTopK, t \in Thresholds, e \in QueryVectors :
           Qdrant_GenerateEmbeddings(q, k, t, e)
    \/ \E q \in Queries, k \in 0..MaxTopK, t \in Thresholds :
           Qdrant_GenerateEmbeddingsRaises(q, k, t)
    \/ Qdrant_QueryPoints
    \/ Qdrant_QueryPointsRaises
    \/ Qdrant_Process
    \/ NextQuestion

Spec == Init /\ [][Next]_vars

(***************************************************************************)
(* Ingestion into the relational store while queries run                   *)
(* (store_enhanced_embeddings_to_db.py lines 76-117).  execute_update      *)
(* commits after every statement (db.py lines 48-59); execute_query reads  *)
(* what is committed when its SELECT runs (db.py lines 41-46, the          *)
(* connection is left at the server's default READ COMMITTED).             *)
(***************************************************************************)
\* the FAQ being ingested and its keyword
IngestFaq ==
    [faq_id |-> "f1", question |-> Question("f1"), embedding |-> "{3, 4}"]
IngestKeyword == [faq_id |-> "f1", keyword |-> "kw", embedding |-> "{4,3}"]

\* what the tables hold before the ingestion starts
StoredFaqRows ==
    {[faq_id |-> "f1", question |-> Question("f1"), embedding |-> "[1,0]"],
     [faq_id |-> "f2", question |-> Question("f2"), embedding |-> "[1,0]"]}
StoredKeywordRows ==
    {[faq_id |-> "f1", keyword |-> "kw", embedding |-> "[-1,0]"],
     [faq_id |-> "f2", keyword |-> "kw", embedding |-> "{4,3}"]}

\* INSERT ... ON CONFLICT (faq_id) DO UPDATE, lines 84-91
UpsertFaq(table, row) ==
    IF \E i \in 1..Len(table) : table[i].faq_id = row.faq_id
    THEN [i \in 1..Len(table) |->
             IF table[i].faq_id = row.faq_id THEN row ELSE table[i]]
    ELSE Append(table, row)

\* INSERT ... ON CONFLICT (faq_id, keyword) DO UPDATE, lines 105-108
UpsertKeyword(table, row) ==
    IF \E i \in 1..Len(table) :
           table[i].faq_id = row.faq_id /\ table[i].keyword = row.keyword
    THEN [i \in 1..Len(table) |->
             IF table[i].faq_id = row.faq_id /\ table[i].keyword = row.keyword
             THEN row ELSE table[i]]
    ELSE Append(table, row)

InitIngest ==
    /\ faq_embeddings \in SeqsUpTo(StoredFaqRows, 1)
    /\ faq_keywords \in SeqsUpTo(StoredKeywordRows, 1)
    /\ collection = <<>>
    /\ variant = "none"
    /\ pc = "idle"
    /\ NoCall
    /\ ingest_pc = "faq"
    /\ lex_query = "" /\ lex_question = "" /\ lex_separator = ""
    /\ lex_boosts = <<>>

\* lines 92-99: the FAQ row is written and committed
Ingest_FaqRow ==
    /\ ingest_pc = "faq"
    /\ faq_embeddings' = UpsertFaq(faq_embeddings, IngestFaq)
    /\ ingest_pc' = "keyword"
    /\ UNCHANGED <<faq_keywords, collection, variant, pc, args, locals, result,
                   retrievals, failure, keywords_at_faq_query, lexical>>

\* lines 103-113: the keyword is embedded, its row written and committed
Ingest_KeywordRow ==
    /\ ingest_pc = "keyword"
    /\ faq_keywords' = UpsertKeyword(faq_keywords, IngestKeyword)
    /\ ingest_pc' = "done"
    /\ UNCHANGED <<faq_embeddings, collection, variant, pc, args, locals,
                   result, retrievals, failure, keywords_at_faq_query, lexical>>

\* line 104 or line 109 raises: the ingestion ends with the FAQ row written
\* and the keyword row not
Ingest_KeywordRaises ==
    /\ ingest_pc = "keyword"
    /\ ingest_pc' = "failed"
    /\ UNCHANGED <<store, variant, pc, args, locals, result, retrievals,
                   failure, keywords_at_faq_query, lexical>>

NextIngest ==
    \/ Ingest_FaqRow
    \/ Ingest_KeywordRow
    \/ Ingest_KeywordRaises
    \/ \E q \in Queries, k \in 0..MaxTopK, t \in Thresholds, e \in QueryVectors :
           Db_GenerateEmbeddings(q, k, t, e)
    \/ \E q \in Queries, k \in 0..MaxTopK, t \in Thresholds :
           Db_GenerateEmbeddingsRaises(q, k, t)
    \/ Db_FetchFaqs
    \/ Db_FetchFaqsRaises
    \/ Db_FetchKeywords
    \/ Db_FetchKeywordsRaises
    \/ Db_Rank
    \/ NextQuestion

SpecIngest == InitIngest /\ [][NextIngest]_vars

(***************************************************************************)
(* The boost rules on their own: the loop body of lines 99-155             *)
(* (query_faqs_qdrant.py lines 56-111) applied to one query and one        *)
(* question text, and to the same question text with the query appended.   *)
(***************************************************************************)
LexQueries == {"reset password", "reset", "pay", "create account", "bank"}
LexQuestions ==
    {"reset my password", "close my bank account", "sign up", "password reset"}
Separators == {"", " "}

InitLexical ==
    /\ faq_embeddings = <<>> /\ faq_keywords = <<>> /\ collection = <<>>
    /\ variant = "none"
    /\ pc = "idle"
    /\ NoCall
    /\ ingest_pc = "off"
    /\ lex_query \in LexQueries
    /\ lex_question \in LexQuestions
    /\ lex_separator \in Separators
    /\ lex_boosts = <<>>

Lexical_Boost(v) ==
    /\ lex_query # ""
    /\ lex_boosts = <<>>
    /\ LET with_query == lex_question \o lex_separator \o lex_query
       IN  lex_boosts' =
               IF v = "db"
               THEN [variant |-> v,
                     original |-> boost_db(lex_query, lex_question),
                     appended |-> boost_db(lex_query, with_query)]
               ELSE [variant |-> v,
                     original |-> boost_qdrant(lex_query, lex_question),
                     appended |-> boost_qdrant(lex_query, with_query)]
    /\ UNCHANGED <<store, variant, pc, args, locals, result, retrievals,
                   failure, keywords_at_faq_query, ingestion, lex_query,
                   lex_question, lex_separator>>

NextLexical == \E v \in {"db", "qdrant"} : Lexical_Boost(v)

SpecLexical == InitLexical /\ [][NextLexical]_vars

(***************************************************************************)
(* Properties                                                              *)
(***************************************************************************)
Ended == pc \in {"returned", "raised"}

\* x <= y on two scores, by cross-multiplication (denominators are positive)
ScoreLeq(x, y) == x[1] * y[2] <= y[1] * x[2]

OutOfDomainQueries ==
    {q \in Queries : WordSet(lower(q)) \cap out_of_domain_terms # {}}
CreateQueries == {q \in Queries : "create" \in WordSet(lower(q))}
SignUpQuestions ==
    {f \in QuestionTexts : {"sign", "up"} \subseteq WordSet(lower(f))}

\* C1: in both variants the returned list is in non-increasing order of final
\* score and every returned score is at least min_similarity_threshold.
C1_SortedAboveThreshold ==
    pc = "returned" =>
        /\ \A i \in 1..(Len(result) - 1) :
               ScoreLeq(result[i + 1].score, result[i].score)
        /\ \A i \in 1..Len(result) :
               ScoreLeq(min_similarity_threshold, result[i].score)

\* two rows came back in the order opposite to the one they were fetched in
C1_Witness ==
    /\ pc = "returned" /\ variant = "db"
    /\ Len(result) = 2
    /\ result[1].faq_data = faq_results[2]
    /\ result[2].faq_data = faq_results[1]
    /\ ~ScoreLeq(result[1].score, result[2].score)

\* C2: in both variants, for every top_k >= 0, at most top_k entries are
\* returned.
C2_AtMostTopK == pc = "returned" => Len(result) <= top_k

\* two candidates meet the threshold and top_k = 1 keeps one of them
C2_Witness ==
    /\ pc = "returned" /\ top_k = 1
    /\ Len(result) = 1
    /\ Cardinality({i \in 1..Len(similarities) :
           ScoreLeq(min_similarity_threshold, similarities[i].score)}) = 2

\* C3: when the retrieval call to the store raises, query_faqs returns an
\* empty list instead of raising, in both variants.
C3_RetrievalFailureReturnsEmpty ==
    failure = "retrieval" => (pc = "returned" /\ result = <<>>)

\* C4: in the relational variant a row whose vector text cannot be parsed
\* costs only that candidate: the result is the ranking of the rows and
\* keyword rows that do parse.
ParsedRows(rows) == SelectSeq(rows, LAMBDA r : ParseEmbedding(r.embedding).ok)

C4_MalformedRowSkipsOnlyItself ==
    (pc = "returned" /\ variant = "db" /\ failure = "none") =>
        result = truncate(
                     FilterThreshold(
                         sort_descending(
                             ScoreRows(ParsedRows(faq_results), 1,
                                       ParsedRows(keyword_results), user_query,
                                       query_embedding).sims),
                         min_similarity_threshold),
                     top_k)

\* C5: in the relational variant no returned row has a stored embedding whose
\* length differs from the query embedding's, and cosine_similarity is never
\* called on two vectors of different length.
C5_DimensionMismatchExcluded ==
    (variant = "db" /\ pc = "returned") =>
        /\ \A i \in 1..Len(result) :
               Len(ParseEmbedding(result[i].faq_data.embedding).value)
                   = Len(query_embedding)
        /\ \A i \in 1..Len(similarities) :
               Len(ParseEmbedding(similarities[i].faq_data.embedding).value)
                   = Len(query_embedding)
        /\ \A c \in cosine_calls : c[1] = c[2]

\* a row with an embedding of another length was fetched next to a row that
\* is returned, and that row has a keyword embedding of another length
C5_Witness ==
    /\ variant = "db" /\ pc = "returned"
    /\ Len(result) = 1
    /\ \E i \in 1..Len(faq_results) :
           Len(ParseEmbedding(faq_results[i].embedding).value)
               # Len(query_embedding)
    /\ \E i \in 1..Len(keyword_results) :
           /\ keyword_results[i].faq_id = result[1].faq_data.faq_id
           /\ keyword_results[i].embedding = "[1,0,0]"

\* C6: in both variants, when the store holds no candidates (no FAQ rows, no
\* points returned by the index), query_faqs returns an empty list and does
\* not raise.
C6_EmptyStoreReturnsEmpty ==
    /\ (variant = "db" /\ Ended /\ failure = "none" /\ faq_results = <<>>)
           => (pc = "returned" /\ result = <<>>)
    /\ (variant = "qdrant" /\ Ended /\ failure = "none" /\ search_result = <<>>)
           => (pc = "returned" /\ result = <<>>)

\* a search of the empty collection has been answered and processed
C6_Witness ==
    /\ variant = "qdrant" /\ Ended /\ failure = "none"
    /\ collection = <<>> /\ search_result = <<>> /\ retrievals = 1

\* C7: when the embedding provider raises, the exception leaves query_faqs in
\* both variants: no list is returned and no retrieval call is issued.
C7_EmbeddingFailurePropagates ==
    failure = "embedding" => (pc = "raised" /\ retrievals = 0 /\ result = <<>>)

\* the provider raised in a relational query over a store that holds rows
C7_Witness ==
    /\ failure = "embedding" /\ variant = "db"
    /\ Len(faq_embeddings) > 0

\* C8: the two variants compute the same boost for the same query and FAQ
\* question text.
C8_SameBoostInBothVariants ==
    pc = "returned" =>
        \A i \in 1..Len(similarities) :
            /\ variant = "db" =>
                   similarities[i].boost =
                       Lookup(BoostQdrantTable, user_query,
                              similarities[i].faq_data.question)
            /\ variant = "qdrant" =>
                   similarities[i].boost =
                       Lookup(BoostDbTable, user_query,
                              similarities[i].faq_data.question)

\* C9: when the raw query words contain "create" and the raw FAQ words contain
\* "sign" and "up", the boost is at least 0.35, in both variants.
C9_CreateSignUpBoost ==
    pc = "returned" =>
        \A i \in 1..Len(similarities) :
            (/\ user_query \in CreateQueries
             /\ similarities[i].faq_data.question \in SignUpQuestions)
                => ScoreLeq(<<7, 20>>, similarities[i].boost)

\* C10: the retrieval-side similarity is multiplied by exactly 0.7 if and only
\* if the raw query words meet the out-of-domain terms, before it enters the
\* final score that is compared with the threshold; the boost is the boost
\* of the two texts, with or without the penalty.
Penalized(x) ==
    IF user_query \in OutOfDomainQueries THEN RMul(x, <<7, 10>>) ELSE x

C10_OutOfDomainPenalty ==
    pc = "returned" =>
        /\ \A i \in 1..Len(similarities) :
               LET c == similarities[i]
               IN  /\ variant = "db" =>
                         /\ c.score =
                               RAdd(RAdd(RMul(c.base_similarity, <<1, 2>>),
                                         RMul(Penalized(c.keyword_similarity),
                                              <<3, 10>>)),
                                    RMul(c.orthographic_similarity, <<1, 5>>))
                         /\ c.boost = Lookup(BoostDbTable, user_query,
                                             c.faq_data.question)
                   /\ variant = "qdrant" =>
                         /\ c.score = RAdd(Penalized(c.base_similarity), c.boost)
                         /\ c.boost = Lookup(BoostQdrantTable, user_query,
                                             c.faq_data.question)
        /\ \A i \in 1..Len(result) :
               \E j \in 1..Len(similarities) :
                   /\ similarities[j].score = result[i].score
                   /\ similarities[j].faq_data = result[i].faq_data

\* an out-of-domain query scored a row that has a keyword similarity above 0
C10_Witness ==
    /\ pc = "returned" /\ variant = "db"
    /\ user_query \in OutOfDomainQueries
    /\ \E i \in 1..Len(similarities) :
           /\ ~ScoreLeq(similarities[i].keyword_similarity, Zero)
           /\ \E j \in 1..Len(result) :
                  result[j].faq_data = similarities[i].faq_data

\* C11: for the query "how to reset password" against "How do I reset my
\* password?" the common meaningful words include both "password" and
\* "reset", and the boost of the candidate is not zero.
C11_ResetPasswordCommonWords ==
    pc = "returned" =>
        \A i \in 1..Len(similarities) :
            (/\ user_query = "how to reset password"
             /\ similarities[i].faq_data.question
                    = "How do I reset my password?")
                => /\ {"password", "reset"} \subseteq
                          Lookup(CommonWordsTable, user_query,
                                 similarities[i].faq_data.question)
                   /\ similarities[i].boost # Zero

\* C12: for a question text that does not contain the query, the boost of
\* the question text with the query appended is at least 0.3 above the boost
\* of the question text itself.
C12_SubstringMonotonicity ==
    (/\ lex_boosts # <<>>
     /\ ~Contains(lower(lex_question), lower(lex_query)))
        => RLeq(RAdd(lex_boosts.original, <<3, 10>>), lex_boosts.appended)

\* C13: in the relational variant the final score is base_similarity * 0.5 +
\* adjusted keyword similarity * 0.3 + orthographic_similarity * 0.2 without
\* the boost: candidates equal in the three components have the same score,
\* and what is returned is decided by that sum alone, whatever the boosts.
WeightedSum(c) ==
    RAdd(RAdd(RMul(c.base_similarity, <<1, 2>>),
              RMul(Penalized(c.keyword_similarity), <<3, 10>>)),
         RMul(c.orthographic_similarity, <<1, 5>>))

IndexSum(score, question) ==
    RAdd(Penalized(score), Lookup(BoostQdrantTable, user_query, question))

C14_IndexScorePlusBoost ==
    (variant = "qdrant" /\ pc = "returned") =>
        /\ \A i \in 1..Len(similarities) :
               LET c == similarities[i]
               IN  /\ \E j \in 1..Len(search_result) :
                          /\ search_result[j].payload = c.faq_data
                          /\ search_result[j].score = c.base_similarity
                   /\ c.score = IndexSum(c.base_similarity, c.faq_data.question)
                   /\ ScoreLeq(min_similarity_threshold, c.score)
        /\ \A j \in 1..Len(search_result) :
               LET hit == search_result[j]
               IN  ScoreLeq(min_similarity_threshold,
                            IndexSum(hit.score, hit.payload.question))
                       => \E i \in 1..Len(similarities) :
                              similarities[i].faq_data.faq_id
                                  = hit.payload.faq_id
        /\ \A i \in 1..(Len(similarities) - 1) :
               ScoreLeq(IndexSum(similarities[i + 1].base_similarity,
                                 similarities[i + 1].faq_data.question),
                        IndexSum(similarities[i].base_similarity,
                                 similarities[i].faq_data.question))
        /\ result = SubSeq(similarities, 1,
                           IF top_k < Len(similarities)
                           THEN top_k ELSE Len(similarities))

\* the boost puts a hit with the lower index score first
C14_Witness ==
    /\ variant = "qdrant" /\ pc = "returned"
    /\ Len(result) = 2
    /\ ~ScoreLeq(result[2].base_similarity, result[1].base_similarity)

\* C15: in the vector-index variant the result holds at most one entry per
\* faq_id, and the entry of a faq_id is made from the first hit of that
\* faq_id in the order the index returned the hits.
FirstHit(faq_id) ==
    CHOOSE j \in 1..Len(search_result) :
        /\ search_result[j].payload.faq_id = faq_id
        /\ \A k \in 1..(j - 1) : search_result[k].payload.faq_id # faq_id

C15_OneEntryPerFaqFirstHit ==
    (variant = "qdrant" /\ pc = "returned") =>
        /\ \A i, j \in 1..Len(similarities) :
               similarities[i].faq_data.faq_id = similarities[j].faq_data.faq_id
                   => i = j
        /\ \A i, j \in 1..Len(result) :
               result[i].faq_data.faq_id = result[j].faq_data.faq_id => i = j
        /\ \A i \in 1..Len(result) :
               /\ \E j \in 1..Len(search_result) :
                      search_result[j].payload.faq_id
                          = result[i].faq_data.faq_id
               /\ LET first == search_result[FirstHit(result[i].faq_data.faq_id)]
                  IN  /\ result[i].base_similarity = first.score
                      /\ result[i].faq_data = first.payload

\* C16: in both variants two candidates with the same final score are
\* returned in the order they were retrieved in: the row order of the FAQ
\* query, the hit order of the index search.
RowIndex(row) == CHOOSE j \in 1..Len(faq_results) : faq_results[j] = row

HitIndex(c) ==
    CHOOSE j \in 1..Len(search_result) :
        /\ search_result[j].payload = c.faq_data
        /\ search_result[j].score = c.base_similarity
        /\ \A k \in 1..(j - 1) :
               \/ search_result[k].payload # c.faq_data
               \/ search_result[k].score # c.base_similarity

C16_TiesKeepRetrievalOrder ==
    pc = "returned" =>
        \A i, j \in 1..Len(result) :
            (i < j /\ result[i].score = result[j].score) =>
                /\ variant = "db" =>
                       RowIndex(result[i].faq_data) < RowIndex(result[j].faq_data)
                /\ variant = "qdrant" =>
                       HitIndex(result[i]) < HitIndex(result[j])

\* two rows with the same final score are returned, f2 fetched before f1
C16_Witness ==
    /\ pc = "returned" /\ variant = "db"
    /\ Len(result) = 2
    /\ result[1].score = result[2].score
    /\ result[1].faq_data.faq_id = "f2"
    /\ Len(keyword_results) = 1

\* C17: in the relational variant keyword_similarity of an FAQ is the largest
\* cosine between the query embedding and the FAQ's keyword embeddings of
\* the query's dimension, whatever the sign of the cosines, and it is 0 only
\* when the FAQ has no such keyword embedding.
KeywordCosines(faq_id) ==
    {cosine_similarity(query_embedding,
                       ParseEmbedding(keyword_results[k].embedding).value) :
        k \in {n \in 1..Len(keyword_results) :
                 /\ keyword_results[n].faq_id = faq_id
                 /\ Len(ParseEmbedding(keyword_results[n].embedding).value)
                        = Len(query_embedding)}}

C17_KeywordSimilarityIsMaxCosine ==
    (variant = "db" /\ pc = "returned") =>
        \A i \in 1..Len(similarities) :
            LET c == similarities[i]
                cosines == KeywordCosines(c.faq_data.faq_id)
            IN  /\ cosines # {} =>
                       /\ c.keyword_similarity \in cosines
                       /\ \A x \in cosines : ScoreLeq(x, c.keyword_similarity)
                /\ c.keyword_similarity = Zero => cosines = {}

\* C18: in the vector-index variant, whenever at least top_k distinct
\* faq_ids each have a point whose index score and whose final score both
\* meet min_similarity_threshold, the result has exactly top_k entries,
\* however many points each FAQ has.
QualifyingFaqIds ==
    {collection[n].payload.faq_id :
        n \in {m \in 1..Len(collection) :
                 LET score == cosine_similarity(query_embedding,
                                                collection[m].vector)
                 IN  /\ ScoreLeq(min_similarity_threshold, score)
                     /\ ScoreLeq(min_similarity_threshold,
                                 IndexSum(score,
                                          collection[m].payload.question))}}

C18_OverFetchSuffices ==
    (variant = "qdrant" /\ pc = "returned") =>
        (Cardinality(QualifyingFaqIds) >= top_k => Len(result) = top_k)

\* C19: in the vector-index variant every returned entry reports a raw index
\* score (base_similarity) that is the score of one of its points and is at
\* least min_similarity_threshold: the boost never brings in a point whose
\* index score is below the threshold.
C19_RawScoreMeetsThreshold ==
    (variant = "qdrant" /\ pc = "returned") =>
        \A i \in 1..Len(result) :
            /\ ScoreLeq(min_similarity_threshold, result[i].base_similarity)
            /\ \E n \in 1..Len(collection) :
                   /\ collection[n].payload = result[i].faq_data
                   /\ cosine_similarity(query_embedding, collection[n].vector)
                          = result[i].base_similarity

\* a point scores below the threshold, its score plus its boost would meet
\* it, and its FAQ is not in the result, which holds another FAQ
C19_Witness ==
    /\ variant = "qdrant" /\ pc = "returned"
    /\ Len(result) = 1
    /\ \E n \in 1..Len(collection) :
           LET score == cosine_similarity(query_embedding, collection[n].vector)
           IN  /\ ~ScoreLeq(min_similarity_threshold, score)
               /\ ScoreLeq(min_similarity_threshold,
                           IndexSum(score, collection[n].payload.question))
               /\ collection[n].payload.faq_id # result[1].faq_data.faq_id

\* C20: in the relational variant the FAQ rows and the keyword rows of one
\* query come from one state of the store, also while ingestion runs: the
\* keyword rows read are the ones the store held when the FAQ rows were read,
\* and the ingested FAQ is never scored without its keyword row.
C20_SingleSnapshot ==
    (variant = "db" /\ retrievals = 2 /\ failure = "none") =>
        /\ keyword_results = keywords_at_faq_query
        /\ \A i \in 1..Len(faq_results) :
               faq_results[i] = IngestFaq =>
                   \E j \in 1..Len(keyword_results) :
                       keyword_results[j] = IngestKeyword

====
